---- MODULE Spec2Model ----
(***************************************************************************)
(* ERIS block codec (cjslep/eris): the streaming encoder of eris.go and    *)
(* the verifying decoder of eris_decode.go.                                *)
(*                                                                         *)
(* Byte buffers are sequences of cells.  A cell is a 4-tuple:              *)
(*   <<"b", v, NoData, 0>>   the plain byte v                              *)
(*   <<"h", s, d, 1>>        the first cell of the BLAKE2b-256 digest of   *)
(*                           the buffer d under hash key s (0: unkeyed)    *)
(*   <<"h", 0, NoData, i>>   the i-th cell, i > 1, of a digest             *)
(*   <<"x", 0, NoData, i>>   a byte that is neither (a stale or wrongly    *)
(*                           decrypted ciphertext byte)                    *)
(* A buffer is [pt |-> cells, ks |-> keys]: the cells XORed with the       *)
(* ChaCha20 keystream of every key in ks (XOR with one keystream twice     *)
(* cancels).  Digests are injective, and no digest is all zero.            *)
(*                                                                         *)
(* Sizes are scaled: a digest takes RefSize cells (the code's 32 bytes),   *)
(* a block holds SmallArity or LargeArity reference-key pairs (the code's  *)
(* 16 and 512).                                                            *)
(*                                                                         *)
(* Specifications:                                                         *)
(*   Spec      encode, encode again, Decode; callees that do not fail      *)
(*   SpecWErr  encode with a WriteFunc that returns an error at one call   *)
(*   SpecDec   encode, then Decode with a Storage that returns other bytes,*)
(*             a writer that fails, another BlockSize, or a Storage that   *)
(*             hands out the slices it holds                               *)
(*   SpecRErr  encode with a source whose Read returns an error            *)
(*   SpecForeign  Decode of trees that hold blocks this encoder does not   *)
(*             build: free last blocks, pairs after an all-zero pair       *)
(*   SpecURN   Ref.URN over the values of a Ref                            *)
(***************************************************************************)
EXTENDS Integers, Sequences, FiniteSets, TLC

\* ---------------------------------------------------------------- bounds
\* cells of a reference and of a key (eris.go:25-26 has 32 and 32)
RefSize ==
    1
KeySize ==
    1
\* reference-key pairs per block of the two block sizes (eris.go:36-37
\* give 1024/64 = 16 and 32768/64 = 512)
SmallArity ==
    2
LargeArity ==
    3
\* longest input, in cells
MaxLen ==
    18
\* longest repeating pattern an input is built from
MaxPat ==
    3
\* the latest call of the WriteFunc that may return an error
MaxErrAt ==
    8
\* the latest Get of a Decode at which the Storage may return other bytes
MaxGetAt ==
    7
\* the latest Write of a Decode at which the writer may return an error
MaxWriteAt ==
    4

\* ------------------------------------------------------------ constants
Size1KiB == SmallArity * (RefSize + KeySize)
Size32KiB == LargeArity * (RefSize + KeySize)
BlockSizes == {Size1KiB, Size32KiB}
\* block sizes checkBlockSize does not know
BadSizes == {0, Size1KiB - 1, Size1KiB + 1, Size32KiB + 1}

\* convergence secrets: 0 is the nil secret, under which the keyed hash is
\* the unkeyed one
Secrets == {0, 1}

\* ---------------------------------------------------------------- cells
NoData == [pt |-> <<>>, ks |-> {}]
Byte(v) == <<"b", v, NoData, 0>>
Junk(i) == <<"x", 0, NoData, i>>
IsByte(c, v) == c[1] = "b" /\ c[2] = v
Plain(cells) == [pt |-> cells, ks |-> {}]
Zeros(n) == [i \in 1..n |-> Byte(0)]

Min(a, b) == IF a < b THEN a ELSE b

\* F(v), with v evaluated once
Then(v, F(_)) == CHOOSE r \in {F(x) : x \in {v}} : TRUE

\* the cells a buffer reads as: its plaintext when no keystream is on it
Cells(b) ==
    IF b.ks = {} THEN b.pt ELSE [i \in 1..Len(b.pt) |-> Junk(i)]

\* copy(dst[at+1:], src): the cells of dst with src written from offset at
Overwrite(dst, at, src) ==
    [i \in 1..Len(dst) |->
        IF i > at /\ i <= at + Len(src) THEN src[i - at] ELSE dst[i]]

\* ------------------------------------------------------------- primitives
\* blake2b.New256(key) over a buffer, as a digest term
Digest(s, b) == <<s, b>>
\* the n cells of a digest: the first carries what was hashed, the others
\* are its tail (non-zero, and alike for all digests)
DigestCells(h, n) ==
    [i \in 1..n |-> IF i = 1 THEN <<"h", h[1], h[2], 1>> ELSE <<"h", 0, NoData, i>>]

\* newRefHash / toRef: the unkeyed digest of an encrypted block
toRef(eblock) == DigestCells(Digest(0, eblock), RefSize)

\* toReadKey: the digest of the unencrypted block keyed by the secret
toReadKey(ublock, sec) == DigestCells(Digest(sec, ublock), KeySize)

\* c.XORKeyStream(block, block) with the cipher of newSymmKeyCipher(key)
XORKeyStream(block, key) ==
    [block EXCEPT !.ks = IF key \in @ THEN @ \ {key} ELSE @ \cup {key}]

\* encrypt: in place, the result is the argument's buffer
encrypt(block, key) == XORKeyStream(block, key)

\* decrypt: in place
decrypt(block, key) == XORKeyStream(block, key)

\* pad without its 0x80 marker
pad_NoMarker(n) == [i \in 1..n |-> Byte(0)]

\* pad: ISO/IEC 7816-4 over a buffer of n cells
pad(n) == [i \in 1..n |-> IF i = 1 THEN Byte(128) ELSE Byte(0)]

\* padContentBlock that adds nothing to an empty last read
padContentBlock_NoEmptyBlock(block, sz) ==
    block \o [i \in 1..((sz - (Len(block) % sz)) % sz) |->
                 IF i = 1 THEN Byte(128) ELSE Byte(0)]

\* padContentBlock(block, size): append(block, pad(p)...)
padContentBlock(block, sz) ==
    LET n0 == sz - (Len(block) % sz)
        n == IF n0 = 0 THEN sz ELSE n0
    IN block \o pad(n)

\* marshalBlock that takes the reference before it encrypts
marshalBlock_RefOfPlain(ublock, sec) ==
    LET readKey == toReadKey(ublock, sec)
    IN  [eblock |-> encrypt(ublock, readKey), ref |-> toRef(ublock),
         readKey |-> readKey]

\* marshalBlock: read key of the plaintext, encrypt in place, reference of
\* the ciphertext
marshalBlock(ublock, sec) ==
    LET readKey == toReadKey(ublock, sec)
        eblock == encrypt(ublock, readKey)
    IN [eblock |-> eblock, ref |-> toRef(eblock), readKey |-> readKey]

\* ---------------------------------------------------------------- inputs
PatBytes == {0, 128}
\* a run of bytes all different from each other, from 0x00 and from 0x80
Ramp == [i \in 1..(MaxPat + 1) |-> ((i - 1) % 127) + 1]
Patterns ==
    UNION {[1..k -> PatBytes] : k \in 1..MaxPat} \cup {Ramp}
\* the first len bytes of the pattern repeated
Repeat(pat, len) == [i \in 1..len |-> Byte(pat[((i - 1) % Len(pat)) + 1])]
Inputs == {Repeat(p, l) : p \in Patterns, l \in 0..MaxLen}

\* ----------------------------------------------------------------- state
VARIABLES
    input,      \* the bytes the source holds
    secret,     \* the convergence secret
    size,       \* the BlockSize of the encoding
    pc,         \* where the caller is: in encode (read, block, final),
                \* after it (done), after Decode (decoded)
    pos,        \* bytes the source has handed out
    buf,        \* encode's working buffer
    n,          \* bytes io.ReadFull has put in buf in the current call
    accs,       \* the accumulators, in creation order; Parent is an index
    emitted,    \* the calls of the WriteFunc, in order
    root,       \* the Ref encode returns
    err,        \* the error encode returns ("" is nil)
    short,      \* whether a Read of this encoding returned fewer bytes than
                \* the source had and the buffer had room for
    run,        \* 1 in the first encoding of the input, 2 in a repeated one
    first,      \* what the first encoding emitted and returned
    gets,       \* the references Decode asked the Storage for, in order
    out,        \* the bytes Decode wrote to the writer
    decErr,     \* the error Decode returns ("" is nil)
    wErrAt,     \* which call of the WriteFunc returns an error (0: none does)
    store,      \* the blocks the Storage holds, by reference, at Decode
    log,        \* the Storage.Get and Write calls Decode made, in order
    denv,       \* what Decode was given: the Ref, and how the Storage and
                \* the writer behave
    urn,        \* what Ref.URN returned
    source      \* how the source ends (fails: with an error, not with
                \* io.EOF) and, for each Read that returned the error, how
                \* many WriteFunc calls had been made and whether
                \* io.ReadFull returned the error (seen)

vars == <<input, secret, size, pc, pos, buf, n, accs, emitted, root, err,
          short, run, first, gets, out, decErr, wErrAt, store, log, denv, urn,
          source>>

\* a source that ends with io.EOF
SourceOK == [fails |-> FALSE, reads |-> <<>>]

\* the zero value of Ref
ZeroRef ==
    [BlockSize |-> 0, Level |-> 0, Ref |-> Zeros(RefSize), Key |-> Zeros(KeySize)]

\* ----------------------------------------------------------- accumulator
\* newAccumulator: a zeroed buffer of the block size, no parent
newAccumulator(sz, sec, level) ==
    [Size |-> sz, Level |-> level, Secret |-> sec, Parent |-> 0,
     RefKeyPairs |-> Plain(Zeros(sz)), N |-> 0]

\* reset that rewinds the cursor and leaves the buffer as it is
reset_KeepBuffer(a) == [a EXCEPT !.N = 0]

\* accumulator.reset
reset(a) ==
    [a EXCEPT !.RefKeyPairs = Plain(Zeros(Len(@.pt))), !.N = 0]

\* accumulator.add
add(a, ref, key) ==
    [a EXCEPT
        !.RefKeyPairs =
            Plain(Overwrite(Overwrite(Cells(@), a.N, ref), a.N + RefSize, key)),
        !.N = @ + RefSize + KeySize]

\* the WriteFunc call: the block, its reference and its key; level and from
\* record which buffer was handed over (0: encode's buf, a: accumulator a's)
Emit(eblock, ref, readKey, level, from) ==
    [cipher |-> eblock, ref |-> ref, key |-> readKey, level |-> level, from |-> from]

\* the call w(eblock, ref, readKey) of the WriteFunc on st: the call is made,
\* and returns an error if it is the call the callee fails at
W(st, e) ==
    [st EXCEPT !.emitted = Append(@, e),
               !.err = IF Len(st.emitted) + 1 = wErrAt THEN "WriteFunc error" ELSE @]

RECURSIVE RecurAccumulate(_, _, _, _)
RECURSIVE ParentMarshal(_, _, _)
RECURSIVE Flush(_, _)

\* RecurAccumulate that creates the parent at its own level
RecurAccumulate_SameLevel(st, a, ref, key) ==
    LET full == st.accs[a].N = st.accs[a].Size
        st1 == IF full /\ st.accs[a].Parent = 0
               THEN [st EXCEPT !.accs =
                        Append([@ EXCEPT ![a].Parent = Len(st.accs) + 1],
                               newAccumulator(st.accs[a].Size, st.accs[a].Secret,
                                              st.accs[a].Level))]
               ELSE st
        st2 == IF full THEN ParentMarshal(st1, a, FALSE) ELSE st1
    IN  IF st2.err # "" THEN st2
        ELSE LET st3 == IF full THEN [st2 EXCEPT !.accs[a] = reset(@)] ELSE st2
             IN  [st3 EXCEPT !.accs[a] = add(@, ref, key)]

\* RecurAccumulate without the reset after the parent took the block
RecurAccumulate_NoReset(st, a, ref, key) ==
    LET full == st.accs[a].N = st.accs[a].Size
        st1 == IF full /\ st.accs[a].Parent = 0
               THEN [st EXCEPT !.accs =
                        Append([@ EXCEPT ![a].Parent = Len(st.accs) + 1],
                               newAccumulator(st.accs[a].Size, st.accs[a].Secret,
                                              st.accs[a].Level + 1))]
               ELSE st
        st2 == IF full THEN ParentMarshal(st1, a, FALSE) ELSE st1
    IN  IF st2.err # "" THEN st2
        ELSE LET st4 == [st2 EXCEPT !.accs[a] = add(@, ref, key)]
             IN  IF st4.accs[a].N > st4.accs[a].Size
                 THEN [st4 EXCEPT !.err = "adding reference-key exceeds block size"]
                 ELSE st4

\* accumulator.RecurAccumulate on accumulator a of st = [accs, emitted, root, err]
RecurAccumulate(st, a, ref, key) ==
    LET full == st.accs[a].N = st.accs[a].Size
        st1 == IF full /\ st.accs[a].Parent = 0
               THEN [st EXCEPT !.accs =
                        Append([@ EXCEPT ![a].Parent = Len(st.accs) + 1],
                               newAccumulator(st.accs[a].Size, st.accs[a].Secret,
                                              st.accs[a].Level + 1))]
               ELSE st
        st2 == IF full THEN ParentMarshal(st1, a, FALSE) ELSE st1
    IN  IF st2.err # "" THEN st2
        ELSE LET st3 == IF full THEN [st2 EXCEPT !.accs[a] = reset(@)] ELSE st2
                 st4 == [st3 EXCEPT !.accs[a] = add(@, ref, key)]
             IN  IF st4.accs[a].N > st4.accs[a].Size
                 THEN [st4 EXCEPT !.err = "adding reference-key exceeds block size"]
                 ELSE st4

\* the closure of recurMarshalBlocks with an encrypt that leaves its
\* argument alone and returns a new buffer
ParentMarshal_EncryptCopy(st, a, toRoot) ==
    LET acc == st.accs[a]
        m == marshalBlock(acc.RefKeyPairs, acc.Secret)
        st1 == W(st, Emit(m.eblock, m.ref, m.readKey, acc.Level, a))
    IN  IF st1.err # "" THEN st1
        ELSE IF toRoot
        THEN [st1 EXCEPT !.root.Ref = m.ref, !.root.Key = m.readKey]
        ELSE RecurAccumulate(st1, acc.Parent, m.ref, m.readKey)

\* the closure of recurMarshalBlocks that drops the error of w
ParentMarshal_IgnoreWError(st, a, toRoot) ==
    LET acc == st.accs[a]
        m == marshalBlock(acc.RefKeyPairs, acc.Secret)
        st1 == [W([st EXCEPT !.accs[a].RefKeyPairs = m.eblock],
                  Emit(m.eblock, m.ref, m.readKey, acc.Level, a))
                  EXCEPT !.err = ""]
    IN  IF toRoot
        THEN [st1 EXCEPT !.root.Ref = m.ref, !.root.Key = m.readKey]
        ELSE RecurAccumulate(st1, acc.Parent, m.ref, m.readKey)

\* a.ParentMarshal(a.RefKeyPairs): the closure of recurMarshalBlocks over the
\* parent's RecurAccumulate, or (toRoot) over Flush's closure that sets root
ParentMarshal(st, a, toRoot) ==
    LET acc == st.accs[a]
        m == marshalBlock(acc.RefKeyPairs, acc.Secret)
        st1 == W([st EXCEPT !.accs[a].RefKeyPairs = m.eblock],
                 Emit(m.eblock, m.ref, m.readKey, acc.Level, a))
    IN  IF st1.err # "" THEN st1
        ELSE IF toRoot
        THEN [st1 EXCEPT !.root.Ref = m.ref, !.root.Key = m.readKey]
        ELSE RecurAccumulate(st1, acc.Parent, m.ref, m.readKey)

\* Flush without the single-pair case: the root accumulator always emits
Flush_NoCollapse(st, a) ==
    LET acc == st.accs[a]
    IN  IF acc.Parent = 0
        THEN ParentMarshal(
                 [st EXCEPT !.root = [ZeroRef EXCEPT !.Level = acc.Level,
                                                     !.BlockSize = acc.Size]],
                 a, TRUE)
        ELSE LET st1 == ParentMarshal(st, a, FALSE)
             IN  IF st1.err # "" THEN st1 ELSE Flush(st1, acc.Parent)

\* Flush that takes the single-pair case whenever a pair is buffered
Flush_CollapseAny(st, a) ==
    LET acc == st.accs[a]
    IN  IF acc.Parent = 0
        THEN [st EXCEPT !.root =
                 [BlockSize |-> acc.Size, Level |-> acc.Level - 1,
                  Ref |-> SubSeq(Cells(acc.RefKeyPairs), 1, RefSize),
                  Key |-> SubSeq(Cells(acc.RefKeyPairs), RefSize + 1,
                                 RefSize + KeySize)]]
        ELSE LET st1 == ParentMarshal(st, a, FALSE)
             IN  IF st1.err # "" THEN st1 ELSE Flush(st1, acc.Parent)

\* accumulator.Flush on accumulator a
Flush(st, a) ==
    LET acc == st.accs[a]
    IN  IF acc.Parent = 0
        THEN IF acc.N = RefSize + KeySize
             THEN [st EXCEPT !.root =
                      [BlockSize |-> acc.Size, Level |-> acc.Level - 1,
                       Ref |-> SubSeq(Cells(acc.RefKeyPairs), 1, RefSize),
                       Key |-> SubSeq(Cells(acc.RefKeyPairs), RefSize + 1,
                                      RefSize + KeySize)]]
             ELSE ParentMarshal(
                      [st EXCEPT !.root = [ZeroRef EXCEPT !.Level = acc.Level,
                                                          !.BlockSize = acc.Size]],
                      a, TRUE)
        ELSE LET st1 == ParentMarshal(st, a, FALSE)
             IN  IF st1.err # "" THEN st1 ELSE Flush(st1, acc.Parent)

\* the marshalFn of newMarshaller on encode's buffer: marshal, emit,
\* accumulate into the level-1 accumulator
mFn(st, ublock) ==
    LET m == marshalBlock(ublock, secret)
        st1 == W(st, Emit(m.eblock, m.ref, m.readKey, 0, 0))
    IN  [st |-> IF st1.err # "" THEN st1 ELSE RecurAccumulate(st1, 1, m.ref, m.readKey),
         eblock |-> m.eblock]

\* ---------------------------------------------------------------- encode
\* io.ReadFull that returns after the first Read that got bytes
ReadFullDone_AnyRead(got, want) == got > 0

\* io.ReadFull returns once it has filled the buffer
ReadFullDone(got, want) == got >= want

EncState == [accs |-> accs, emitted |-> emitted, root |-> root, err |-> err]

\* one Read of the source inside io.ReadFull: the source hands out k bytes,
\* as many as it likes, into buf[n:]
SourceRead ==
    /\ pc = "read"
    /\ pos < Len(input)
    /\ \E k \in 1..Min(size - n, Len(input) - pos) :
        /\ buf' = Plain(Overwrite(Cells(buf), n, SubSeq(input, pos + 1, pos + k)))
        /\ n' = n + k
        /\ pos' = pos + k
        /\ pc' = IF ReadFullDone(n + k, size) THEN "block" ELSE "read"
        /\ short' = (short \/ k < Min(size - n, Len(input) - pos))
    /\ UNCHANGED <<input, secret, size, accs, emitted, root, err, run, first,
                   gets, out, decErr, wErrAt, store, log, denv, urn,
                   source>>

\* a Read of the source returns an error that is not io.EOF, with the k
\* bytes the source had left (k may be 0), treated as the end of the source
SourceReadError_AsEOF ==
    /\ pc = "read"
    /\ source.fails
    /\ Len(input) - pos <= size - n
    /\ LET k == Len(input) - pos
       IN  /\ buf' = Plain(Overwrite(Cells(buf), n, SubSeq(input, pos + 1, pos + k)))
           /\ n' = n + k
           /\ pos' = pos + k
           /\ pc' = IF ReadFullDone(n + k, size) THEN "block" ELSE "final"
           /\ source' = [source EXCEPT !.reads =
                            Append(@, [emits |-> Len(emitted),
                                       seen |-> ~ReadFullDone(n + k, size)])]
    /\ UNCHANGED <<input, secret, size, accs, emitted, root, err, short, run,
                   first, gets, out, decErr, wErrAt, store, log, denv, urn>>

\* a Read of the source returns an error that is not io.EOF, with the k
\* bytes the source had left (k may be 0). io.ReadFull returns nil if these
\* bytes fill the buffer, and the error if they do not; encode returns on
\* the error
SourceReadError ==
    /\ pc = "read"
    /\ source.fails
    /\ Len(input) - pos <= size - n
    /\ LET k == Len(input) - pos
       IN  /\ buf' = Plain(Overwrite(Cells(buf), n, SubSeq(input, pos + 1, pos + k)))
           /\ n' = n + k
           /\ pos' = pos + k
           /\ pc' = IF ReadFullDone(n + k, size) THEN "block" ELSE "done"
           /\ err' = IF ReadFullDone(n + k, size) THEN err ELSE "read error"
           /\ source' = [source EXCEPT !.reads =
                            Append(@, [emits |-> Len(emitted),
                                       seen |-> ~ReadFullDone(n + k, size)])]
    /\ UNCHANGED <<input, secret, size, accs, emitted, root, short, run,
                   first, gets, out, decErr, wErrAt, store, log, denv, urn>>

\* the source is at its end: io.ReadFull returns io.EOF with n = 0 and
\* io.ErrUnexpectedEOF with 0 < n < size; encode takes both to the last block.
\* A source that fails may be at its end after it has returned its error
SourceEOF ==
    /\ pc = "read"
    /\ pos = Len(input)
    /\ ~source.fails \/ source.reads # <<>>
    /\ pc' = "final"
    /\ UNCHANGED <<input, secret, size, pos, buf, n, accs, emitted, root, err,
                   short, run, first, gets, out, decErr, wErrAt, store, log,
                   denv, urn,
                   source>>

\* encode's loop body on a full read: mFn(buf)
EncodeBlock ==
    /\ pc = "block"
    /\ LET r == mFn(EncState, buf)
       IN  /\ buf' = r.eblock
           /\ accs' = r.st.accs
           /\ emitted' = r.st.emitted
           /\ err' = r.st.err
           /\ pc' = IF r.st.err # "" THEN "done" ELSE "read"
    /\ n' = 0
    /\ UNCHANGED <<input, secret, size, pos, root, short, run, first, gets, out,
                   decErr, wErrAt, store, log, denv, urn,
                   source>>

\* encode that hands the last content block to the WriteFunc after Flush
EncodeFinal_FlushFirst ==
    /\ pc = "final"
    /\ LET padded == Plain(padContentBlock(SubSeq(Cells(buf), 1, n), size))
           m == marshalBlock(padded, secret)
           r == RecurAccumulate(EncState, 1, m.ref, m.readKey)
           f == IF r.err # "" THEN r ELSE Flush(r, 1)
       IN  /\ buf' = m.eblock
           /\ accs' = f.accs
           /\ emitted' = Append(f.emitted, Emit(m.eblock, m.ref, m.readKey, 0, 0))
           /\ root' = f.root
           /\ err' = f.err
    /\ pc' = "done"
    /\ UNCHANGED <<input, secret, size, pos, n, short, run, first, gets, out,
                   decErr, wErrAt, store, log, denv, urn,
                   source>>

\* encode's loop body on the last read: pad buf[:n], mFn, acc.Flush
EncodeFinal ==
    /\ pc = "final"
    /\ LET padded == Plain(padContentBlock(SubSeq(Cells(buf), 1, n), size))
           r == mFn(EncState, padded)
           f == IF r.st.err # "" THEN r.st ELSE Flush(r.st, 1)
       IN  /\ buf' = r.eblock
           /\ accs' = f.accs
           /\ emitted' = f.emitted
           /\ root' = f.root
           /\ err' = f.err
    /\ pc' = "done"
    /\ UNCHANGED <<input, secret, size, pos, n, short, run, first, gets, out,
                   decErr, wErrAt, store, log, denv, urn,
                   source>>

\* the caller encodes the same input again, with the same secret and size
EncodeAgain ==
    /\ pc = "done"
    /\ run = 1
    /\ err = ""
    /\ first' = [emitted |-> emitted, root |-> root, short |-> short]
    /\ short' = FALSE
    /\ run' = 2
    /\ pc' = "read"
    /\ pos' = 0
    /\ n' = 0
    /\ buf' = Plain(Zeros(size))
    /\ accs' = <<newAccumulator(size, secret, 1)>>
    /\ emitted' = <<>>
    /\ root' = [ZeroRef EXCEPT !.BlockSize = size]
    /\ UNCHANGED <<input, secret, size, err, gets, out, decErr, wErrAt, store,
                   log, denv, urn,
                   source>>

\* ---------------------------------------------------------------- decode
\* Decode runs on d = [gets, sink, out, err, wret, log, store, env]: store
\* is the Storage's blocks by reference, env is how the Storage and the
\* writer behave in this call, log the calls made on them.

\* the blocks a Storage holds after the encoding: each block the WriteFunc
\* was given, copied, under its reference
Stored == {e.ref : e \in {emitted[i] : i \in 1..Len(emitted)}}
Blocks ==
    [r \in Stored |->
        (CHOOSE e \in {emitted[i] : i \in 1..Len(emitted)} : e.ref = r).cipher]

\* a Storage and a writer that do what they are asked
NoFault == [getAt |-> 0, getKind |-> "", writeErrAt |-> 0, alias |-> FALSE]

\* what a faulty Storage returns in place of the block b
GetKinds == {"short", "long", "flipped", "other"}
Corrupt(d, b, kind) ==
    IF kind = "short" THEN [b EXCEPT !.pt = SubSeq(@, 1, Len(@) - 1)]
    ELSE IF kind = "long" THEN [b EXCEPT !.pt = Append(@, Byte(0))]
    ELSE IF kind = "flipped" THEN [b EXCEPT !.pt[1] = Junk(0)]
    ELSE \* another block of the Storage, if it has one
         IF \E r \in DOMAIN d.store : d.store[r] # b
         THEN d.store[CHOOSE r \in DOMAIN d.store : d.store[r] # b]
         ELSE [b EXCEPT !.pt[1] = Junk(0)]

\* s.Get(ref), the (Len(d.gets) + 1)-th Get of the call
StorageGet(d, ref) ==
    IF ref \notin DOMAIN d.store
    THEN [b |-> Plain(<<>>), err |-> "storage: no such reference"]
    ELSE IF Len(d.gets) + 1 = d.env.getAt
    THEN [b |-> Corrupt(d, d.store[ref], d.env.getKind), err |-> ""]
    ELSE [b |-> d.store[ref], err |-> ""]

\* checkedGet that does not compare the reference
checkedGet_NoRefCheck(d, ref, sz) ==
    LET g == StorageGet(d, ref)
    IN  IF g.err # "" THEN g
        ELSE IF sz # Len(g.b.pt)
        THEN [b |-> g.b, err |-> "returned block incorrect size"]
        ELSE g

\* checkedGet: Get, the length check, the reference check
checkedGet(d, ref, sz) ==
    LET g == StorageGet(d, ref)
    IN  IF g.err # "" THEN g
        ELSE IF sz # Len(g.b.pt)
        THEN [b |-> g.b, err |-> "returned block incorrect size"]
        ELSE IF \E i \in 1..RefSize : toRef(g.b)[i] # ref[i]
        THEN [b |-> g.b, err |-> "returned block did not match reference"]
        ELSE g

\* refKeyPairAllZero
refKeyPairAllZero(r, k) ==
    /\ \A i \in 1..Len(r) : IsByte(r[i], 0)
    /\ \A i \in 1..Len(k) : IsByte(k[i], 0)

\* checkBlockSize that lets every size through
checkBlockSize_Any(bs) == ""

\* checkBlockSize
checkBlockSize(bs) ==
    IF bs = Size1KiB \/ bs = Size32KiB THEN "" ELSE "unhandled block size"

\* newPaddingSink
newPaddingSink(sz) == [buf |-> Zeros(sz), first |-> TRUE]

\* the Write calls of the log
Writes(lg) == SelectSeq(lg, LAMBDA ev : ev[1] = "write")

\* w.Write(b) on the caller's writer; wret is what the call returns
WriterWrite(d, b) ==
    IF Len(Writes(d.log)) + 1 = d.env.writeErrAt
    THEN [d EXCEPT !.log = Append(@, <<"write", b, "error">>), !.wret = "write error"]
    ELSE [d EXCEPT !.log = Append(@, <<"write", b, "">>), !.out = @ \o b, !.wret = ""]

\* paddingSink.Write that hands every block to the writer as it comes
sinkWrite_NoLookAhead(d, b) ==
    LET d1 == WriterWrite(d, b)
        d2 == [d1 EXCEPT !.sink.first = FALSE]
    IN  IF Len(d2.sink.buf) # Len(b)
        THEN [d2 EXCEPT !.err = "mismatched padding buffer and block size"]
        ELSE [d2 EXCEPT !.sink.buf = b]

\* paddingSink.Write: the buffered block goes to the writer (what that Write
\* returns is overwritten by the return statements), b takes its place
sinkWrite(d, b) ==
    LET d1 == IF ~d.sink.first THEN WriterWrite(d, d.sink.buf) ELSE d
        d2 == [d1 EXCEPT !.sink.first = FALSE]
    IN  IF Len(d2.sink.buf) # Len(b)
        THEN [d2 EXCEPT !.err = "mismatched padding buffer and block size"]
        ELSE [d2 EXCEPT !.sink.buf = b]

\* the index (from 0) at which paddingSink.Flush's backward scan stops:
\* -1 when it runs off the front, -2 when it meets a byte not 0x00 or 0x80
RECURSIVE scanPad(_, _)
scanPad(b, idx) ==
    IF idx < 0 THEN -1
    ELSE IF IsByte(b[idx + 1], 128) THEN idx
    ELSE IF ~IsByte(b[idx + 1], 0) THEN -2
    ELSE scanPad(b, idx - 1)

\* Flush that writes the buffer up to and with the 0x80 marker
sinkFlush_KeepMarker(d) ==
    LET idx == scanPad(d.sink.buf, Len(d.sink.buf) - 1)
    IN  IF idx = -2 THEN [d EXCEPT !.err = "content block padding malformed"]
        ELSE IF idx = -1
        THEN [d EXCEPT !.err = "last content block was improperly padded"]
        ELSE [d EXCEPT !.out = @ \o SubSeq(d.sink.buf, 1, idx + 1)]

\* Flush that takes a buffer without a marker as a block without content
sinkFlush_AcceptsUnpadded(d) ==
    LET idx == scanPad(d.sink.buf, Len(d.sink.buf) - 1)
    IN  IF idx = -2 THEN [d EXCEPT !.err = "content block padding malformed"]
        ELSE IF idx <= 0 THEN d
        ELSE LET d1 == WriterWrite(d, SubSeq(d.sink.buf, 1, idx))
             IN  [d1 EXCEPT !.err = d1.wret]

\* paddingSink.Flush: its error is that of the writer's Write
sinkFlush(d) ==
    LET idx == scanPad(d.sink.buf, Len(d.sink.buf) - 1)
    IN  IF idx = -2 THEN [d EXCEPT !.err = "content block padding malformed"]
        ELSE IF idx = -1
        THEN [d EXCEPT !.err = "last content block was improperly padded"]
        ELSE IF idx <= 0 THEN d
        ELSE LET d1 == WriterWrite(d, SubSeq(d.sink.buf, 1, idx))
             IN  [d1 EXCEPT !.err = d1.wret]

RECURSIVE decodeRecur(_, _, _, _, _)
RECURSIVE decodePairs(_, _, _, _, _)
RECURSIVE decodePairs_SkipZero(_, _, _, _, _)

\* decodeRecur: fetch, check, decrypt in place (in the slice the Storage
\* returned: its own, when the Storage hands out its slices); a content
\* block goes to the sink, an inner node is read pair by pair
decodeRecur(d, level, ref, key, sz) ==
    LET g == checkedGet(d, ref, sz)
        d1 == [d EXCEPT !.gets = Append(@, ref),
                        !.log = Append(@, <<"get", ref, g.err>>)]
    IN  IF g.err # "" THEN [d1 EXCEPT !.err = g.err]
        ELSE LET ub == decrypt(g.b, key)
             IN  Then(IF d.env.alias THEN [d1 EXCEPT !.store[ref] = ub] ELSE d1,
                      LAMBDA d2 : IF level = 0 THEN sinkWrite(d2, Cells(ub))
                                  ELSE decodePairs(d2, level, Cells(ub), 0, sz))

\* the loop that returns after the first pair of the node
decodePairs_FirstPairOnly(d, level, cells, off, sz) ==
    IF off >= Len(cells) THEN d
    ELSE IF Len(cells) - off < RefSize + KeySize
    THEN [d EXCEPT !.err = "unexpected EOF"]
    ELSE LET r == SubSeq(cells, off + 1, off + RefSize)
             k == SubSeq(cells, off + RefSize + 1, off + RefSize + KeySize)
         IN  IF refKeyPairAllZero(r, k) THEN d
             ELSE decodeRecur(d, level - 1, r, k, sz)

\* the loop that goes on to the next pair when it meets an all-zero pair
decodePairs_SkipZero(d, level, cells, off, sz) ==
    IF off >= Len(cells) THEN d
    ELSE IF Len(cells) - off < RefSize + KeySize
    THEN [d EXCEPT !.err = "unexpected EOF"]
    ELSE LET r == SubSeq(cells, off + 1, off + RefSize)
             k == SubSeq(cells, off + RefSize + 1, off + RefSize + KeySize)
         IN  Then(IF refKeyPairAllZero(r, k) THEN d
                  ELSE decodeRecur(d, level - 1, r, k, sz),
                  LAMBDA d1 :
                      IF d1.err # "" THEN d1
                      ELSE decodePairs_SkipZero(d1, level, cells,
                                                off + RefSize + KeySize, sz))

\* the for loop of decodeRecur over the bytes.Buffer of the node, off cells in
decodePairs(d, level, cells, off, sz) ==
    IF off >= Len(cells) THEN d
    ELSE IF Len(cells) - off < RefSize + KeySize
    THEN [d EXCEPT !.err = "unexpected EOF"]
    ELSE LET r == SubSeq(cells, off + 1, off + RefSize)
             k == SubSeq(cells, off + RefSize + 1, off + RefSize + KeySize)
         IN  IF refKeyPairAllZero(r, k) THEN d
             ELSE Then(decodeRecur(d, level - 1, r, k, sz),
                       LAMBDA d1 :
                           IF d1.err # "" THEN d1
                           ELSE decodePairs(d1, level, cells, off + RefSize + KeySize, sz))

\* Decode(s, w, ref) over the Storage blocks st0 in the environment env
DecodeRun(ref, st0, env) ==
    LET d0 == [gets |-> <<>>, sink |-> newPaddingSink(ref.BlockSize),
               out |-> <<>>, err |-> checkBlockSize(ref.BlockSize), wret |-> "",
               log |-> <<>>, store |-> st0, env |-> env]
    IN  Then(IF d0.err # "" THEN d0
             ELSE decodeRecur(d0, ref.Level, ref.Ref, ref.Key, ref.BlockSize),
             LAMBDA d1 : IF d1.err # "" THEN d1 ELSE sinkFlush(d1))

\* a call of Decode after the encoding, and what it leaves
DecodeCall(ref, st0, env, prev) ==
    /\ err = ""
    /\ \E d \in {DecodeRun(ref, st0, env)} :
           /\ gets' = d.gets
           /\ out' = d.out
           /\ decErr' = d.err
           /\ log' = d.log
           /\ store' = d.store
    /\ denv' = [ref |-> ref, env |-> env, prev |-> prev]
    /\ UNCHANGED <<input, secret, size, pos, buf, n, accs, emitted, root, err,
                   short, run, first, wErrAt, urn,
                   source>>

\* Decode(s, w, root) of the Ref encode returned, with a Storage and a
\* writer that do what they are asked
Decode ==
    /\ pc = "done"
    /\ pc' = "decoded"
    /\ DecodeCall(root, Blocks, NoFault, <<>>)

\* Decode with a Storage that returns other bytes at one of its Gets
DecodeCorruptGet ==
    /\ pc = "done"
    /\ pc' = "decoded"
    /\ \E at \in 1..MaxGetAt, kind \in GetKinds :
           DecodeCall(root, Blocks,
                      [NoFault EXCEPT !.getAt = at, !.getKind = kind], <<>>)

\* Decode with a writer that returns an error at one of its Writes
DecodeWriteError ==
    /\ pc = "done"
    /\ pc' = "decoded"
    /\ \E at \in 1..MaxWriteAt :
           DecodeCall(root, Blocks, [NoFault EXCEPT !.writeErrAt = at], <<>>)

\* Decode of a Ref with another BlockSize
DecodeBadSize ==
    /\ pc = "done"
    /\ pc' = "decoded"
    /\ \E bs \in BadSizes :
           DecodeCall([root EXCEPT !.BlockSize = bs], Blocks, NoFault, <<>>)

\* Decode with a Storage whose Get returns the slice it holds
DecodeAliased ==
    /\ pc = "done"
    /\ pc' = "decoded"
    /\ DecodeCall(root, Blocks, [NoFault EXCEPT !.alias = TRUE], <<>>)

\* a second Decode of the same Ref over the same Storage
DecodeAgain ==
    /\ pc = "decoded"
    /\ denv.env.alias
    /\ pc' = "decoded2"
    /\ DecodeCall(denv.ref, store, denv.env,
                  [out |-> out, err |-> decErr, store |-> store])

\* ------------------------------------------------------- read capability
erisURNVersion == "erisx2"
\* math.MaxUint8
MaxUint8 ==
    255

\* the alphabet of base32.StdEncoding
Base32Alphabet ==
    <<"A", "B", "C", "D", "E", "F", "G", "H", "I", "J", "K", "L", "M", "N", "O", "P",
      "Q", "R", "S", "T", "U", "V", "W", "X", "Y", "Z", "2", "3", "4", "5", "6", "7">>

\* the i-th bit (from 1, most significant first) of a sequence of bytes, 0
\* past its end
BitOf(bytes, i) ==
    IF i > 8 * Len(bytes) THEN 0
    ELSE (bytes[((i - 1) \div 8) + 1] \div (2 ^ (7 - ((i - 1) % 8)))) % 2

\* base32.StdEncoding.WithPadding(base32.NoPadding).EncodeToString: a
\* character for every 5 bits, the last group filled with zero bits
EncodeToString(bytes) ==
    [j \in 1..((8 * Len(bytes) + 4) \div 5) |->
        Base32Alphabet[1 + 16 * BitOf(bytes, 5 * j - 4) + 8 * BitOf(bytes, 5 * j - 3)
                         + 4 * BitOf(bytes, 5 * j - 2) + 2 * BitOf(bytes, 5 * j - 1)
                         + BitOf(bytes, 5 * j)]]

\* the values of the bytes of a buffer of plain bytes
ByteValues(cells) == [i \in 1..Len(cells) |-> cells[i][2]]

\* Ref.URN that writes the key before the reference
URN_KeyBeforeRef(r) ==
    IF r.BlockSize # Size1KiB /\ r.BlockSize # Size32KiB
    THEN [s |-> <<>>, err |-> "cannot create urn: unhandled block size"]
    ELSE IF r.Level > MaxUint8
    THEN [s |-> <<>>, err |-> "cannot create urn: level exceeds 1 byte depth"]
    ELSE [s |-> <<"urn:", erisURNVersion, ":">> \o
                EncodeToString(<<IF r.BlockSize = Size1KiB THEN 0 ELSE 1,
                                 r.Level % 256>>
                               \o ByteValues(r.Key) \o ByteValues(r.Ref)),
          err |-> ""]

\* Ref.URN: the string as the sequence of its parts, and the error;
\* byte(r.Level) keeps the low 8 bits of the int
URN(r) ==
    IF r.BlockSize # Size1KiB /\ r.BlockSize # Size32KiB
    THEN [s |-> <<>>, err |-> "cannot create urn: unhandled block size"]
    ELSE IF r.Level > MaxUint8
    THEN [s |-> <<>>, err |-> "cannot create urn: level exceeds 1 byte depth"]
    ELSE [s |-> <<"urn:", erisURNVersion, ":">> \o
                EncodeToString(<<IF r.BlockSize = Size1KiB THEN 0 ELSE 1,
                                 r.Level % 256>>
                               \o ByteValues(r.Ref) \o ByteValues(r.Key)),
          err |-> ""]

\* the caller takes the URN of the Ref it holds
RefURN ==
    /\ pc = "ref"
    /\ urn' = URN(root)
    /\ pc' = "urn"
    /\ UNCHANGED <<input, secret, size, pos, buf, n, accs, emitted, root, err,
                   short, run, first, gets, out, decErr, wErrAt, store, log, denv,
                   source>>

\* ------------------------------------- blocks of another encoder's making
\* A Storage holds whatever was put under a reference: Decode is also given
\* trees that this package's encoder would not build. Their blocks carry
\* their right references and keys (marshalBlock), their content is free.

\* how a content block ends: with the marker and zeros, with zeros only,
\* with another byte and zeros
EndKinds == {"marker", "zeros", "other"}
BlockEnd(kind, len) ==
    [i \in 1..len |->
        IF i > 1 THEN Byte(0)
        ELSE IF kind = "marker" THEN Byte(128)
        ELSE IF kind = "zeros" THEN Byte(0)
        ELSE Byte(1)]
\* the content blocks that are tried as the last block of a tree
ForeignBlocks(sz) ==
    {Repeat(pat, p) \o BlockEnd(kind, sz - p) :
        pat \in {Ramp, <<0>>, <<128>>}, p \in 0..sz, kind \in EndKinds}
\* a block of content that ends like padding
FullBlock(sz) ==
    [i \in 1..sz |->
        IF i = sz - 1 THEN Byte(128) ELSE IF i = sz THEN Byte(0) ELSE Byte(3)]
\* a padded block that is no ForeignBlock and no FullBlock
OtherBlock(sz) ==
    [i \in 1..sz |->
        IF i = 1 THEN Byte(99) ELSE IF i = 2 THEN Byte(128) ELSE Byte(0)]

\* the content of slot j of a node whose first all-zero pair is slot gap:
\* full blocks, then blk; after the gap OtherBlock or nothing (<<>>)
ForeignChild(sz, blk, gap, after, j) ==
    IF j < gap - 1 THEN FullBlock(sz)
    ELSE IF j = gap - 1 THEN blk
    ELSE IF j > gap /\ after THEN OtherBlock(sz)
    ELSE <<>>

\* the level 1 node over these children: a reference-key pair for each
\* child, an all-zero pair where there is none
ForeignNode(sz, sec, blk, gap, after) ==
    [i \in 1..sz |->
        LET j == ((i - 1) \div (RefSize + KeySize)) + 1
            o == ((i - 1) % (RefSize + KeySize)) + 1
            c == ForeignChild(sz, blk, gap, after, j)
        IN  IF c = <<>> THEN Byte(0)
            ELSE LET m == marshalBlock(Plain(c), sec)
                 IN  (m.ref \o m.readKey)[o]]

\* the calls by which the children and then the node reach the Storage
RECURSIVE ForeignEmits(_, _, _, _, _, _)
ForeignEmits(sz, sec, blk, gap, after, j) ==
    IF j > sz \div (RefSize + KeySize)
    THEN LET m == marshalBlock(Plain(ForeignNode(sz, sec, blk, gap, after)), sec)
         IN  <<Emit(m.eblock, m.ref, m.readKey, 1, 1)>>
    ELSE LET c == ForeignChild(sz, blk, gap, after, j)
             rest == ForeignEmits(sz, sec, blk, gap, after, j + 1)
         IN  IF c = <<>> THEN rest
             ELSE LET m == marshalBlock(Plain(c), sec)
                  IN  <<Emit(m.eblock, m.ref, m.readKey, 0, 0)>> \o rest

\* the Storage is filled with one content block, and the Ref names it
StoreForeignBlock ==
    /\ pc = "store"
    /\ pc' = "done"
    /\ \E blk \in ForeignBlocks(size) :
           LET m == marshalBlock(Plain(blk), secret)
           IN  /\ emitted' = <<Emit(m.eblock, m.ref, m.readKey, 0, 0)>>
               /\ root' = [BlockSize |-> size, Level |-> 0,
                           Ref |-> m.ref, Key |-> m.readKey]
    /\ UNCHANGED <<input, secret, size, pos, buf, n, accs, err, short, run,
                   first, gets, out, decErr, wErrAt, store, log, denv, urn,
                   source>>

\* the Storage is filled with a level 1 node and its children, and the Ref
\* names the node
StoreForeignNode ==
    /\ pc = "store"
    /\ pc' = "done"
    /\ \E blk \in ForeignBlocks(size), after \in BOOLEAN,
          gap \in 1..((size \div (RefSize + KeySize)) + 1) :
           \E es \in {ForeignEmits(size, secret, blk, gap, after, 1)} :
               /\ emitted' = es
               /\ root' = [BlockSize |-> size, Level |-> 1,
                           Ref |-> es[Len(es)].ref,
                           Key |-> es[Len(es)].key]
    /\ UNCHANGED <<input, secret, size, pos, buf, n, accs, err, short, run,
                   first, gets, out, decErr, wErrAt, store, log, denv, urn,
                   source>>

\* ------------------------------------------------------------------ spec
\* the state at the call of encode, after newMarshaller and make(buf)
EncodeStart ==
    /\ pc = "read"
    /\ pos = 0
    /\ n = 0
    /\ buf = Plain(Zeros(size))
    /\ accs = <<newAccumulator(size, secret, 1)>>
    /\ emitted = <<>>
    /\ root = [ZeroRef EXCEPT !.BlockSize = size]
    /\ err = ""
    /\ run = 1
    /\ short = FALSE
    /\ first = [emitted |-> <<>>, root |-> ZeroRef, short |-> FALSE]
    /\ gets = <<>>
    /\ out = <<>>
    /\ decErr = ""
    /\ store = <<>>
    /\ log = <<>>
    /\ denv = <<>>
    /\ urn = <<>>

\* an encoding whose WriteFunc never fails, as the test's BlockAccumulator
Init ==
    /\ input \in Inputs
    /\ secret \in Secrets
    /\ size \in BlockSizes
    /\ wErrAt = 0
    /\ source = SourceOK
    /\ EncodeStart

Next ==
    \/ SourceRead
    \/ SourceEOF
    \/ EncodeBlock
    \/ EncodeFinal
    \/ EncodeAgain
    \/ Decode

Spec == Init /\ [][Next]_vars

\* -------------------------------------------- encode with a failing WriteFunc
\* the inputs of the runs in which a callee fails
FaultInputs == {Repeat(p, l) : p \in {Ramp, <<0>>}, l \in 0..MaxLen}

\* an encoding whose WriteFunc returns an error at its wErrAt-th call
InitWErr ==
    /\ input \in FaultInputs
    /\ secret \in Secrets
    /\ size \in BlockSizes
    /\ wErrAt \in 1..MaxErrAt
    /\ source = SourceOK
    /\ EncodeStart

NextEncode ==
    \/ SourceRead
    \/ SourceEOF
    \/ EncodeBlock
    \/ EncodeFinal

SpecWErr == InitWErr /\ [][NextEncode]_vars

\* ------------------------------------------ encode with a failing source
\* an encoding whose source returns an error once it has handed out its
\* bytes; after that error it returns it again or is at its end
InitRErr ==
    /\ input \in FaultInputs
    /\ secret \in Secrets
    /\ size \in BlockSizes
    /\ wErrAt = 0
    /\ source = [fails |-> TRUE, reads |-> <<>>]
    /\ EncodeStart

NextRErr ==
    \/ SourceRead
    \/ SourceReadError
    \/ SourceEOF
    \/ EncodeBlock
    \/ EncodeFinal

SpecRErr == InitRErr /\ [][NextRErr]_vars

\* ------------------------------- decode with a faulty Storage or writer
InitDec ==
    /\ input \in FaultInputs
    /\ secret \in Secrets
    /\ size \in BlockSizes
    /\ wErrAt = 0
    /\ source = SourceOK
    /\ EncodeStart

NextDec ==
    \/ SourceRead
    \/ SourceEOF
    \/ EncodeBlock
    \/ EncodeFinal
    \/ DecodeCorruptGet
    \/ DecodeWriteError
    \/ DecodeBadSize
    \/ DecodeAliased
    \/ DecodeAgain

SpecDec == InitDec /\ [][NextDec]_vars

\* ---------------------------------- decode of another encoder's trees
InitForeign ==
    /\ pc = "store"
    /\ secret \in Secrets
    /\ size \in BlockSizes
    /\ input = <<>>
    /\ wErrAt = 0
    /\ source = SourceOK
    /\ pos = 0
    /\ n = 0
    /\ buf = Plain(Zeros(size))
    /\ accs = <<>>
    /\ emitted = <<>>
    /\ root = ZeroRef
    /\ err = ""
    /\ run = 1
    /\ short = FALSE
    /\ first = [emitted |-> <<>>, root |-> ZeroRef, short |-> FALSE]
    /\ gets = <<>>
    /\ out = <<>>
    /\ decErr = ""
    /\ store = <<>>
    /\ log = <<>>
    /\ denv = <<>>
    /\ urn = <<>>

NextForeign ==
    \/ StoreForeignBlock
    \/ StoreForeignNode
    \/ Decode

SpecForeign == InitForeign /\ [][NextForeign]_vars

\* ------------------------------------------------------- the URN of a Ref
\* the values a Ref's fields take: Ref is a struct of two ints and two byte
\* arrays, any of its values can be given to URN
URNLevels == {-1, 0, 1, 2, MaxUint8, MaxUint8 + 1}
URNBytes == {0, 129}
URNRefs ==
    [BlockSize : BlockSizes \cup {0},
     Level : URNLevels,
     Ref : {[i \in 1..RefSize |-> Byte(f[i])] : f \in [1..RefSize -> URNBytes]},
     Key : {[i \in 1..KeySize |-> Byte(f[i])] : f \in [1..KeySize -> URNBytes]}]

InitURN ==
    /\ root \in URNRefs
    /\ pc = "ref"
    /\ input = <<>>
    /\ secret = 0
    /\ size = Size1KiB
    /\ wErrAt = 0
    /\ source = SourceOK
    /\ pos = 0
    /\ n = 0
    /\ buf = Plain(Zeros(size))
    /\ accs = <<>>
    /\ emitted = <<>>
    /\ err = ""
    /\ run = 1
    /\ short = FALSE
    /\ first = [emitted |-> <<>>, root |-> ZeroRef, short |-> FALSE]
    /\ gets = <<>>
    /\ out = <<>>
    /\ decErr = ""
    /\ store = <<>>
    /\ log = <<>>
    /\ denv = <<>>
    /\ urn = <<>>

SpecURN == InitURN /\ [][RefURN]_vars

\* ---------------------------------------------------------------- claims
Arity == size \div (RefSize + KeySize)
Finished == pc \in {"done", "decoded"}
EmitIdx == 1..Len(emitted)
ContentIdx == {i \in EmitIdx : emitted[i].level = 0}
InnerIdx == {i \in EmitIdx : emitted[i].level > 0}
ContentBlocks == SelectSeq(emitted, LAMBDA e : e.level = 0)
\* the plaintext under an emitted ciphertext
PlainOf(e) == Cells(XORKeyStream(e.cipher, e.key))
RECURSIVE ConcatPlain(_)
ConcatPlain(es) ==
    IF es = <<>> THEN <<>> ELSE PlainOf(Head(es)) \o ConcatPlain(Tail(es))
RECURSIVE Pow(_, _)
Pow(a, k) == IF k = 0 THEN 1 ELSE a * Pow(a, k - 1)
\* input || 0x80 || 0x00 ..., k cells long
PaddedTo(k) ==
    [i \in 1..k |->
        IF i <= Len(input) THEN input[i]
        ELSE IF i = Len(input) + 1 THEN Byte(128) ELSE Byte(0)]

\* C1: Decode of the root Ref encode returned, over a Storage that holds the
\* emitted blocks, succeeds and writes exactly the input bytes.
C1_RoundTrip ==
    pc = "decoded" => (decErr = "" /\ out = input)

C1_Witness ==
    /\ pc = "decoded"
    /\ root.Level >= 2
    /\ Len(input) > size
    /\ out = input

\* C2: a second encoding of the same input, size and secret makes the same
\* emit calls in the same order (at every point, the calls made so far are
\* the first encoding's first calls) and returns the same root Ref, however
\* the source split the input over its Reads in either encoding.
C2_Deterministic ==
    /\ run = 2 =>
          /\ Len(emitted) <= Len(first.emitted)
          /\ emitted = SubSeq(first.emitted, 1, Len(emitted))
    /\ (run = 2 /\ Finished) => (emitted = first.emitted /\ root = first.root)

C2_Witness ==
    /\ run = 2
    /\ pc = "done"
    /\ short # first.short
    /\ Len(emitted) > Arity + 1
    /\ emitted = first.emitted

\* C3: every emitted ciphertext has exactly BlockSize bytes and its
\* reference is the reference hash of that ciphertext, content block or
\* inner node.
C3_EmittedBlocks ==
    \A i \in EmitIdx :
        /\ Len(emitted[i].cipher.pt) = size
        /\ emitted[i].ref = toRef(emitted[i].cipher)

C3_Witness ==
    /\ pc = "done"
    /\ InnerIdx # {}
    /\ \E i \in ContentIdx : i > 1 /\ Len(emitted[i].cipher.pt) = size
    /\ Len(input) % size # 0

\* C4: the root Level is the least L >= 0 with Arity^L >= the number of
\* content blocks; Level 0 iff one content block; Arity * BlockSize + 1
\* bytes give Level 2.
C4_MinimalLevel ==
    (pc = "done" /\ err = "") =>
        LET nb == Cardinality(ContentIdx)
        IN  /\ root.Level >= 0
            /\ Pow(Arity, root.Level) >= nb
            /\ \A l \in 0..(root.Level - 1) : Pow(Arity, l) < nb
            /\ (root.Level = 0 <=> nb = 1)
            /\ (Len(input) = Arity * size + 1 => root.Level = 2)

C4_Witness ==
    /\ pc = "done"
    /\ Len(input) = Arity * size + 1
    /\ root.Level = 2

\* C5: an input of len bytes gives len div BlockSize + 1 content blocks whose
\* plaintexts, in emission order, are input || 0x80 || 0x00...; an input of
\* a positive multiple of BlockSize ends in a block of pure padding.
C5_ContentBlocks ==
    (pc = "done" /\ err = "") =>
        LET nb == Len(input) \div size + 1
        IN  /\ Len(ContentBlocks) = nb
            /\ ConcatPlain(ContentBlocks) = PaddedTo(nb * size)
            /\ (Len(input) > 0 /\ Len(input) % size = 0 =>
                    PlainOf(ContentBlocks[nb]) =
                        <<Byte(128)>> \o [i \in 1..(size - 1) |-> Byte(0)])

C5_Witness ==
    /\ pc = "done"
    /\ Len(input) = size
    /\ Len(ContentBlocks) = 2
    /\ PlainOf(ContentBlocks[2]) = <<Byte(128)>> \o [i \in 1..(size - 1) |-> Byte(0)]

\* C6: the empty input makes exactly one emit call, for the content block
\* 0x80 0x00..., and the root has Level 0 and that block's reference and key.
C6_EmptyInput ==
    (pc = "done" /\ Len(input) = 0) =>
        /\ err = ""
        /\ Len(emitted) = 1
        /\ emitted[1].level = 0
        /\ PlainOf(emitted[1]) = <<Byte(128)>> \o [i \in 1..(size - 1) |-> Byte(0)]
        /\ root.Level = 0
        /\ root.BlockSize = size
        /\ root.Ref = emitted[1].ref
        /\ root.Key = emitted[1].key

C6_Witness ==
    /\ pc = "done"
    /\ Len(input) = 0
    /\ Len(emitted) = 1
    /\ root.Level = 0

PurePadding == <<Byte(128)>> \o [i \in 1..(size - 1) |-> Byte(0)]

\* C7 as stated: an input of exactly BlockSize bytes makes exactly 2 emit
\* calls and gives root Level 1.
C7_Original ==
    (pc = "done" /\ Len(input) = size) => (Len(emitted) = 2 /\ root.Level = 1)

\* C7, amended: an input of exactly BlockSize bytes makes exactly 3 emit
\* calls, for 2 content blocks (the second pure padding) and then the
\* level-1 node over them, which is the root: root Level is 1.
C7_ExactlyOneBlock ==
    (pc = "done" /\ Len(input) = size) =>
        /\ err = ""
        /\ Len(emitted) = 3
        /\ emitted[1].level = 0
        /\ emitted[2].level = 0
        /\ PlainOf(emitted[2]) = PurePadding
        /\ emitted[3].level = 1
        /\ root.Level = 1
        /\ root.Ref = emitted[3].ref
        /\ root.Key = emitted[3].key

C7_Witness ==
    /\ pc = "done"
    /\ Len(input) = size
    /\ Len(emitted) = 3
    /\ root.Level = 1

\* C8 as stated: an input of exactly Arity * BlockSize bytes gives Arity
\* content blocks, one inner node and root Level 1.
C8_Original ==
    (pc = "done" /\ Len(input) = Arity * size) =>
        /\ Cardinality(ContentIdx) = Arity
        /\ Cardinality(InnerIdx) = 1
        /\ root.Level = 1

\* C8, amended: an input of exactly Arity * BlockSize bytes gives Arity + 1
\* content blocks (the last pure padding), two level-1 nodes and a level-2
\* node over them, which is the root: root Level is 2.
C8_FullNodeOfBlocks ==
    (pc = "done" /\ Len(input) = Arity * size) =>
        /\ err = ""
        /\ Cardinality(ContentIdx) = Arity + 1
        /\ PlainOf(ContentBlocks[Arity + 1]) = PurePadding
        /\ Cardinality({i \in InnerIdx : emitted[i].level = 1}) = 2
        /\ Cardinality({i \in InnerIdx : emitted[i].level = 2}) = 1
        /\ Cardinality(InnerIdx) = 3
        /\ root.Level = 2
        /\ root.Ref = emitted[Len(emitted)].ref

C8_Witness ==
    /\ pc = "done"
    /\ Len(input) = Arity * size
    /\ Cardinality(ContentIdx) = Arity + 1
    /\ root.Level = 2

\* the reference-key pairs in the slots of an emitted inner node, by slot
SlotPair(e, j) ==
    SubSeq(PlainOf(e), (j - 1) * (RefSize + KeySize) + 1, j * (RefSize + KeySize))
ZeroPair == Zeros(RefSize + KeySize)
PairOf(e) == e.ref \o e.key
\* the slots that hold a pair: (node, slot)
Slots ==
    {<<i, j>> \in InnerIdx \X (1..Arity) : SlotPair(emitted[i], j) # ZeroPair}

\* C9 as stated: no two emit calls of one encoding carry the same reference.
C9_Original ==
    \A i, j \in EmitIdx : i # j => emitted[i].ref # emitted[j].ref

\* C9, amended: the callback is called once per block of the tree, not once
\* per distinct block: every emit call is accounted for by exactly one slot
\* of an inner node or by the root Ref, and two emit calls carry the same
\* reference only when they carry the same block (same ciphertext and key).
C9_OncePerTreeBlock ==
    /\ \A i, j \in EmitIdx :
          emitted[i].ref = emitted[j].ref =>
              (emitted[i].cipher = emitted[j].cipher /\ emitted[i].key = emitted[j].key)
    /\ (pc = "done" /\ err = "") =>
          /\ \A s \in Slots :
                \E i \in EmitIdx : PairOf(emitted[i]) = SlotPair(emitted[s[1]], s[2])
          /\ \E i \in EmitIdx : PairOf(emitted[i]) = root.Ref \o root.Key
          /\ \A i \in EmitIdx :
                Cardinality({k \in EmitIdx : PairOf(emitted[k]) = PairOf(emitted[i])})
                  = Cardinality({s \in Slots :
                        SlotPair(emitted[s[1]], s[2]) = PairOf(emitted[i])})
                    + (IF root.Ref \o root.Key = PairOf(emitted[i]) THEN 1 ELSE 0)

C9_Witness ==
    /\ pc = "done"
    /\ InnerIdx # {}
    /\ \E i, j \in ContentIdx : i # j /\ emitted[i].ref = emitted[j].ref
    /\ \E i, j \in ContentIdx : emitted[i].ref # emitted[j].ref

\* C10: every inner node is emitted after the blocks whose pairs it holds
\* (so after its whole subtree), and the content blocks are emitted in
\* input order.
C10_EmissionOrder ==
    /\ \A s \in Slots :
          \E i \in 1..(s[1] - 1) :
              /\ PairOf(emitted[i]) = SlotPair(emitted[s[1]], s[2])
              /\ emitted[i].level = emitted[s[1]].level - 1
    /\ \A k \in 1..Len(ContentBlocks) :
          PlainOf(ContentBlocks[k]) =
              SubSeq(PaddedTo(k * size), (k - 1) * size + 1, k * size)

C10_Witness ==
    /\ pc = "done"
    /\ root.Level >= 2
    /\ Cardinality(Slots) > Arity
    /\ \A i, j \in ContentIdx : i # j => emitted[i].ref # emitted[j].ref

\* C11: once a call of the WriteFunc has returned an error, encode has
\* returned that error: the failing call is the last one, and no WriteFunc
\* call and no Read of the source follows it.
C11_EmitErrorStops ==
    [][/\ Len(emitted') >= wErrAt =>
              /\ err' = "WriteFunc error"
              /\ Len(emitted') = wErrAt
              /\ pc' = "done"
       /\ err = "WriteFunc error" =>
              /\ emitted' = emitted
              /\ pos' = pos
              /\ err' = err]_vars

\* the WriteFunc failed on an inner node emitted on overflow, while the
\* source still had bytes
C11_Witness ==
    /\ pc = "done"
    /\ err = "WriteFunc error"
    /\ Len(emitted) = wErrAt
    /\ emitted[wErrAt].level >= 1
    /\ pos < Len(input)

\* the errors of checkedGet's two checks
IntegrityErrors ==
    {"returned block incorrect size", "returned block did not match reference"}

\* C12: when a Get of the Storage returns a block of another length or of
\* another reference hash, Decode returns checkedGet's error, that Get is
\* the last call Decode makes (no later Get, no later Write), and the output
\* holds only bytes of the blocks before it.
C12_StorageIntegrity ==
    (pc = "decoded" /\ denv.env.getAt > 0 /\ Len(gets) >= denv.env.getAt) =>
        /\ decErr \in IntegrityErrors
        /\ Len(gets) = denv.env.getAt
        /\ log[Len(log)] = <<"get", gets[Len(gets)], decErr>>
        /\ out = PaddedTo(Len(out))
        /\ Len(out) = size * Len(Writes(log))

\* a content block with a changed byte is refused after earlier blocks have
\* been written
C12_Witness ==
    /\ pc = "decoded"
    /\ denv.env.getAt > 0
    /\ denv.env.getKind = "flipped"
    /\ Len(gets) = denv.env.getAt
    /\ decErr = "returned block did not match reference"
    /\ Len(out) > 0

\* C13: when a Write of the caller's writer returns an error, Decode returns
\* an error and that Write is the last call it makes.
C13_WriteErrorStops ==
    (pc = "decoded" /\ denv.env.writeErrAt > 0
        /\ Len(Writes(log)) >= denv.env.writeErrAt) =>
        /\ decErr # ""
        /\ log[Len(log)][1] = "write"
        /\ log[Len(log)][3] = "error"

\* C14: Decode of a Ref whose BlockSize is not one of the two block sizes
\* returns an error and calls neither Storage.Get nor Write.
C14_BadBlockSize ==
    (pc = "decoded" /\ denv.ref.BlockSize \notin BlockSizes) =>
        /\ decErr = "unhandled block size"
        /\ log = <<>>
        /\ gets = <<>>
        /\ out = <<>>

C14_Witness ==
    /\ pc = "decoded"
    /\ denv.ref.BlockSize = Size1KiB + 1
    /\ denv.ref.Level >= 1
    /\ decErr = "unhandled block size"

\* C17: over a Storage that hands out the slices it holds, the blocks are
\* the same after a Decode as before it, and a second Decode of the same
\* Ref succeeds and writes what the first wrote.
C17_StoredBlocksUnchanged ==
    /\ (pc \in {"decoded", "decoded2"} /\ denv.env.alias) => store = Blocks
    /\ pc = "decoded2" =>
          /\ denv.prev.err = ""
          /\ decErr = ""
          /\ out = denv.prev.out

\* the place (from 0) of a character in the base32 alphabet
Base32Index(ch) == (CHOOSE k \in 1..32 : Base32Alphabet[k] = ch) - 1
\* the bytes a base32 string without padding stands for
DecodeString(chars) ==
    [i \in 1..((5 * Len(chars)) \div 8) |->
        LET bit(b) == (Base32Index(chars[((b - 1) \div 5) + 1])
                          \div (2 ^ (4 - ((b - 1) % 5)))) % 2
        IN  128 * bit(8 * i - 7) + 64 * bit(8 * i - 6) + 32 * bit(8 * i - 5)
              + 16 * bit(8 * i - 4) + 8 * bit(8 * i - 3) + 4 * bit(8 * i - 2)
              + 2 * bit(8 * i - 1) + bit(8 * i)]
\* a Ref of the data model
ValidRef(r) == r.BlockSize \in BlockSizes /\ r.Level \in 0..MaxUint8
\* the length of the binary read capability (the code's 66)
CapSize == 2 + RefSize + KeySize

\* C15: for a valid Ref, URN returns urn:erisx2: followed by the unpadded
\* base32 encoding of the read capability, whose bytes are the block size
\* tag, the Level, the reference and the key in this order; and no other
\* valid Ref has the same URN.
C15_URNLayout ==
    (pc = "urn" /\ ValidRef(root)) =>
        /\ urn.err = ""
        /\ SubSeq(urn.s, 1, 3) = <<"urn:", "erisx2", ":">>
        /\ Len(urn.s) = 3 + (8 * CapSize + 4) \div 5
        /\ LET cap == DecodeString(SubSeq(urn.s, 4, Len(urn.s)))
           IN  /\ Len(cap) = CapSize
               /\ cap[1] = (IF root.BlockSize = Size1KiB THEN 0 ELSE 1)
               /\ cap[2] = root.Level
               /\ SubSeq(cap, 3, 2 + RefSize) = ByteValues(root.Ref)
               /\ SubSeq(cap, 3 + RefSize, CapSize) = ByteValues(root.Key)
        /\ \A r \in URNRefs : (ValidRef(r) /\ r # root) => URN(r).s # urn.s

C15_Witness ==
    /\ pc = "urn"
    /\ root.BlockSize = Size32KiB
    /\ root.Level = MaxUint8
    /\ ByteValues(root.Ref) # ByteValues(root.Key)
    /\ urn.err = ""
    /\ Len(urn.s) > 3

\* C16: URN returns an error and the empty string for every Ref whose
\* BlockSize is not a block size or whose Level is not in 0..255, and when
\* it succeeds the Level byte of the URN is the Ref's Level.
C16_URNRejectsInvalid ==
    pc = "urn" =>
        /\ ~ValidRef(root) => (urn.err # "" /\ urn.s = <<>>)
        /\ urn.err = "" =>
              DecodeString(SubSeq(urn.s, 4, Len(urn.s)))[2] = root.Level

\* the calls of the WriteFunc for blocks of level l, in order
LevelSeq(l) == SelectSeq(emitted, LAMBDA e : e.level = l)
\* the place of the i-th call among the calls of its level
Rank(i) == Cardinality({m \in 1..i : emitted[m].level = emitted[i].level})

\* C18: in every emitted inner node the all-zero slots are a suffix, the
\* first slot is not zero, and the other slots hold the pairs pushed into
\* the accumulator since its last reset, in push order: the k-th node of a
\* level holds the pairs of blocks (k-1)*Arity+1 .. k*Arity of the level
\* below, as far as there are such blocks.
C18_TrailingZeroSlots ==
    \A i \in InnerIdx :
        LET kids == LevelSeq(emitted[i].level - 1)
            base == (Rank(i) - 1) * Arity
        IN  /\ SlotPair(emitted[i], 1) # ZeroPair
            /\ \A j \in 1..(Arity - 1) :
                  SlotPair(emitted[i], j) = ZeroPair =>
                      SlotPair(emitted[i], j + 1) = ZeroPair
            /\ \A j \in 1..Arity :
                  SlotPair(emitted[i], j) =
                      IF base + j <= Len(kids) THEN PairOf(kids[base + j])
                      ELSE ZeroPair

\* a partly filled node is emitted by an accumulator that was reset before
C18_Witness ==
    /\ pc = "done"
    /\ \E i \in InnerIdx :
          /\ Rank(i) >= 2
          /\ emitted[i].level = 1
          /\ SlotPair(emitted[i], 1) # ZeroPair
          /\ SlotPair(emitted[i], Arity) = ZeroPair

\* C19: every accumulator's cursor N is a multiple of the pair size between
\* 0 and BlockSize, and at least one pair once the accumulator has been
\* pushed to (the first after the first content block, a parent from its
\* creation); the accumulators form one parent chain of levels 1, 2, ...;
\* and the error of a cursor past the block size never occurs.
C19_AccumulatorInvariant ==
    /\ err # "adding reference-key exceeds block size"
    /\ \A a \in 1..Len(accs) :
          /\ accs[a].N % (RefSize + KeySize) = 0
          /\ accs[a].N >= 0
          /\ accs[a].N <= accs[a].Size
          /\ Len(accs[a].RefKeyPairs.pt) = accs[a].Size
          /\ (a > 1 \/ ContentIdx # {}) => accs[a].N >= RefSize + KeySize
          /\ accs[a].Level = a
          /\ accs[a].Parent = (IF a < Len(accs) THEN a + 1 ELSE 0)

\* a chain of two accumulators, the first one full again after its reset
C19_Witness ==
    /\ pc = "read"
    /\ Len(accs) >= 2
    /\ accs[1].N = accs[1].Size
    /\ accs[2].N = RefSize + KeySize

\* the buffer whose slice the i-th call of the WriteFunc was given, as it is
\* now: encode's buf for a content block, the accumulator's for a node
SliceNow(i) ==
    IF emitted[i].from = 0 THEN buf ELSE accs[emitted[i].from].RefKeyPairs
\* the last call that was given a slice of the same buffer as the i-th
LastOfBuffer(i) ==
    CHOOSE k \in EmitIdx :
        /\ emitted[k].from = emitted[i].from
        /\ \A m \in EmitIdx : emitted[m].from = emitted[i].from => m <= k

\* C20 as stated: the slice of every call of the WriteFunc hashes to the
\* call's reference at every later point.
C20_Original ==
    \A i \in EmitIdx : toRef(SliceNow(i)) = emitted[i].ref

\* C20, amended: the slice hashes to the reference when the WriteFunc is
\* called, and it is the encoder's own buffer, written again later: before
\* each Read into an empty buffer encode's buffer holds the last content
\* block, while encode runs an accumulator's buffer holds plain pairs and no
\* emitted node, and when encode has returned every slice handed out reads
\* as the last block emitted from its buffer.
C20_SliceIsWorkingBuffer ==
    /\ \A i \in EmitIdx : toRef(emitted[i].cipher) = emitted[i].ref
    /\ (pc = "read" /\ n = 0) =>
          \A i \in ContentIdx : buf = emitted[LastOfBuffer(i)].cipher
    /\ pc \in {"read", "block", "final"} =>
          \A a \in 1..Len(accs) : accs[a].RefKeyPairs.ks = {}
    /\ (pc = "done" /\ err = "") =>
          \A i \in EmitIdx : SliceNow(i) = emitted[LastOfBuffer(i)].cipher

\* after encode, an earlier content block and an earlier inner node are no
\* longer in the slices that were handed out
C20_Witness ==
    /\ pc = "done"
    /\ \E i \in ContentIdx : toRef(SliceNow(i)) # emitted[i].ref
    /\ \E i \in InnerIdx : toRef(SliceNow(i)) # emitted[i].ref
    /\ \E i \in InnerIdx : toRef(SliceNow(i)) = emitted[i].ref

\* the references of the content blocks of the encoding
ContentRefs == {emitted[i].ref : i \in ContentIdx}
\* how many of the first p calls of the log are of the kind the test tells
CountLog(p, Test(_)) == Cardinality({q \in 1..p : Test(log[q])})

\* C21: the padding sink is one block behind. The w-th Write the writer
\* receives, as long as it is not the Write of Flush, comes when exactly
\* w + 1 content blocks have been fetched, and is the w-th content block,
\* whole; the last content block is written only by Flush, as the last
\* call, cut before its padding (not at all when nothing is left of it).
C21_SinkLookAhead ==
    (pc = "decoded" /\ decErr = "") =>
        LET nb == Len(ContentBlocks)
            last == SubSeq(input, (nb - 1) * size + 1, Len(input))
        IN  /\ Len(Writes(log)) = (IF last = <<>> THEN nb - 1 ELSE nb)
            /\ \A p \in 1..Len(log) :
                  log[p][1] = "write" =>
                      LET w == CountLog(p, LAMBDA ev : ev[1] = "write")
                          g == CountLog(p, LAMBDA ev : ev[1] = "get" /\ ev[2] \in ContentRefs)
                      IN  IF w < nb
                          THEN /\ g = w + 1
                               /\ log[p][2] = PlainOf(ContentBlocks[w])
                          ELSE /\ g = nb
                               /\ p = Len(log)
                               /\ log[p][2] = last

\* a block before the last one ends like padding and is written whole
C21_Witness ==
    /\ pc = "decoded"
    /\ decErr = ""
    /\ Len(ContentBlocks) >= 3
    /\ Len(Writes(log)) = Len(ContentBlocks)
    /\ \E w \in 1..(Len(ContentBlocks) - 1) :
          /\ IsByte(PlainOf(ContentBlocks[w])[size - 1], 128)
          /\ IsByte(PlainOf(ContentBlocks[w])[size], 0)
          /\ Writes(log)[w][2] = PlainOf(ContentBlocks[w])

\* the WriteFunc call that put the block of reference r in the Storage
EmitOf(r) == emitted[CHOOSE i \in EmitIdx : emitted[i].ref = r]
\* the content blocks Decode fetched, in the order of their Gets
FetchedContent ==
    SelectSeq([p \in 1..Len(gets) |-> EmitOf(gets[p])], LAMBDA e : e.level = 0)
\* the places of the non-zero bytes of a block
NonZero(b) == {i \in 1..Len(b) : ~IsByte(b[i], 0)}
\* the greatest of a non-empty set of numbers
Max(S) == CHOOSE x \in S : \A y \in S : y <= x

\* C22: Decode ends on the last content block it fetched. If the block's
\* last non-zero byte is 0x80, Decode returns nil and the output is the
\* earlier blocks, whole, and then the bytes before that 0x80; if the last
\* non-zero byte is another one, if the block is all zeros, or if no content
\* block was fetched, Decode returns an error and the output is the earlier
\* blocks only.
C22_Unpadding ==
    pc = "decoded" =>
        LET fc == FetchedContent
            before == IF fc = <<>> THEN <<>> ELSE ConcatPlain(SubSeq(fc, 1, Len(fc) - 1))
            last == IF fc = <<>> THEN <<>> ELSE PlainOf(fc[Len(fc)])
        IN  IF NonZero(last) # {} /\ IsByte(last[Max(NonZero(last))], 128)
            THEN /\ decErr = ""
                 /\ out = before \o SubSeq(last, 1, Max(NonZero(last)) - 1)
            ELSE /\ decErr # ""
                 /\ out = before

\* a block that ends 0x80 0x01 0x00*: an error, and the block before it
\* is all of the output
C22_Witness ==
    /\ pc = "decoded"
    /\ decErr = "content block padding malformed"
    /\ Len(FetchedContent) >= 2
    /\ Len(out) = size
    /\ \E i \in 2..size :
          /\ IsByte(PlainOf(FetchedContent[Len(FetchedContent)])[i], 1)
          /\ IsByte(PlainOf(FetchedContent[Len(FetchedContent)])[i - 1], 128)

\* the first all-zero slot of an inner node, Arity + 1 if it has none
FirstZeroSlot(e) ==
    IF \E j \in 1..Arity : SlotPair(e, j) = ZeroPair
    THEN CHOOSE j \in 1..Arity :
            /\ SlotPair(e, j) = ZeroPair
            /\ \A k \in 1..(j - 1) : SlotPair(e, k) # ZeroPair
    ELSE Arity + 1

\* C23: the Gets of a Decode from a level 1 node are the node and then the
\* blocks of its slots in slot order up to the first all-zero pair, or up
\* to the last slot if there is none, and no other; the scan ends without
\* an error either way, so that Decode goes on to Flush.
C23_StopsAtZeroPair ==
    (pc = "decoded" /\ root.Level = 1) =>
        LET e == EmitOf(root.Ref)
            z == FirstZeroSlot(e)
        IN  /\ gets = <<root.Ref>> \o
                      [j \in 1..(z - 1) |-> SubSeq(SlotPair(e, j), 1, RefSize)]
            /\ decErr \in {"", "content block padding malformed",
                           "last content block was improperly padded"}
            /\ (z > 1 /\ decErr = "") =>
                   \E k \in 0..(size - 1) :
                       out = ConcatPlain(SubSeq(FetchedContent, 1, z - 2)) \o
                             SubSeq(PlainOf(FetchedContent[z - 1]), 1, k)

\* a node with a pair after its first all-zero pair, decoded without error
C23_Witness ==
    /\ pc = "decoded"
    /\ root.Level = 1
    /\ decErr = ""
    /\ \E j \in 1..Arity :
          /\ j > FirstZeroSlot(EmitOf(root.Ref))
          /\ SlotPair(EmitOf(root.Ref), j) # ZeroPair
          /\ SubSeq(SlotPair(EmitOf(root.Ref), j), 1, RefSize) \in Stored
    /\ Len(gets) = FirstZeroSlot(EmitOf(root.Ref))

\* a node without an all-zero pair, scanned to its end
C23_WitnessFull ==
    /\ pc = "decoded"
    /\ root.Level = 1
    /\ decErr = ""
    /\ FirstZeroSlot(EmitOf(root.Ref)) = Arity + 1
    /\ Len(gets) = Arity + 1

\* the references of the tree under a reference-key pair, the node before
\* its children and the children in slot order
RECURSIVE PreOrder(_, _)
RECURSIVE PreOrderFrom(_, _, _)
PreOrder(level, pair) ==
    LET r == SubSeq(pair, 1, RefSize)
    IN  IF level = 0 THEN <<r>> ELSE <<r>> \o PreOrderFrom(level, EmitOf(r), 1)
\* the same for the slots of the node e from slot j on
PreOrderFrom(level, e, j) ==
    IF j > Arity \/ SlotPair(e, j) = ZeroPair THEN <<>>
    ELSE PreOrder(level - 1, SlotPair(e, j)) \o PreOrderFrom(level, e, j + 1)
\* how many members of the sequence are x
Count(seq, x) == Cardinality({i \in 1..Len(seq) : seq[i] = x})

\* C24: Decode of the Ref an encoding returned, on the blocks it emitted,
\* comes to its end, and its Gets are the references of the tree in
\* pre-order from the root's: as many Gets as there were calls of the
\* WriteFunc, each reference as often as it was emitted, none that was not.
C24_OneGetPerEmit ==
    pc = "decoded" =>
        /\ decErr = ""
        /\ gets = PreOrder(root.Level, root.Ref \o root.Key)
        /\ gets[1] = root.Ref
        /\ Len(gets) = Len(emitted)
        /\ \A p \in 1..Len(gets) : gets[p] \in Stored
        /\ \A r \in Stored :
              Count(gets, r) = Count([i \in EmitIdx |-> emitted[i].ref], r)

\* a tree of three levels with a block that occurs more than once
C24_Witness ==
    /\ pc = "decoded"
    /\ decErr = ""
    /\ root.Level = 2
    /\ \E r \in Stored : Count(gets, r) >= 2
    /\ Cardinality(Stored) >= 3

\* the root encode returns when it has not run Flush
Unflushed == root = [ZeroRef EXCEPT !.BlockSize = size]
\* the WriteFunc calls so far are those of full blocks of the input: the
\* content blocks are the input's blocks in order, no inner node has an
\* all-zero slot
OnlyFullBlocks ==
    /\ \A k \in 1..Len(ContentBlocks) :
          /\ k * size <= pos
          /\ PlainOf(ContentBlocks[k]) = SubSeq(input, (k - 1) * size + 1, k * size)
    /\ \A i \in InnerIdx : \A j \in 1..Arity : SlotPair(emitted[i], j) # ZeroPair

====
